---- MODULE Spec2Model ----
(***************************************************************************)
(* Model of the norm library: matrix_operations.py (column_sums, row_sums, *)
(* transpose, matrix_multiply, compute_eigenvalues), matrix_norms.py       *)
(* (one_norm, infinity_norm, two_norm) and vector_norms.py                 *)
(* (previous_difference_norm).                                             *)
(*                                                                         *)
(* Every function is pure.  A state is one call site: the function called  *)
(* (fn), its arguments, and what the call produced (ret, raised).  Python  *)
(* lists are sequences; Python's index i is index i+1 here.  A returned    *)
(* value v is ret = <<v>>; a call that raised returns nothing, ret = <<>>. *)
(* A Python float is the pair <<"float", n>>, an int is the integer n.     *)
(***************************************************************************)
EXTENDS Integers, Sequences, FiniteSets, TLC

\* ---------------------------------------------------------------- bounds
\* Largest number of elements (rows * columns) of a one-argument input.
MaxCells == 6

\* Largest number of elements of each argument of matrix_multiply.
MaxMulCells == 4

\* Largest length of a vector argument.
MaxLen == 4

\* Largest number of successive applications of transpose.
MaxCalls == 2

\* Element values of the inputs.
Vals == {-1, 0, 2}

MulVals == {-1, 2}

\* ------------------------------------------------------ Python primitives
Abs(x) == IF x < 0 THEN -x ELSE x

\* float(n)
Float(n) == <<"float", n>>

RECURSIVE Sum(_)
\* sum(s) of a sequence of ints
Sum(s) == IF s = <<>> THEN 0 ELSE s[1] + Sum(Tail(s))

RECURSIVE Max(_)
\* max(s) of a non-empty sequence of ints
Max(s) ==
    IF Len(s) = 1 THEN s[1]
    ELSE LET m == Max(Tail(s)) IN IF s[1] >= m THEN s[1] ELSE m

NoError == "none"

MaxEmptyError == "ValueError: max() arg is an empty sequence"

ShapeError == "ValueError: The matrix must be square (same number of rows and columns)."

IndexError == "IndexError: tuple index out of range"

\* `not matrix or not matrix[0]`
IsEmptyMatrix(matrix) == matrix = <<>> \/ matrix[1] = <<>>

\* ---------------------------------------------------- matrix_operations
RECURSIVE ColumnSumsLoop(_, _, _)
\* for row in matrix: for j in range(cols): column_sums[j] += abs(row[j])
ColumnSumsLoop(matrix, cols, acc) ==
    IF matrix = <<>> THEN acc
    ELSE ColumnSumsLoop(Tail(matrix), cols,
                        [j \in 1..cols |-> acc[j] + Abs(matrix[1][j])])

column_sums(matrix) ==
    IF IsEmptyMatrix(matrix) THEN <<>>
    ELSE LET cols == Len(matrix[1])
         IN  ColumnSumsLoop(matrix, cols, [j \in 1..cols |-> 0])

row_sums(matrix) ==
    IF IsEmptyMatrix(matrix) THEN <<>>
    ELSE LET rows == Len(matrix)
         IN  [counter \in 1..rows |->
                 0 + Sum([x \in 1..Len(matrix[counter]) |-> Abs(matrix[counter][x])])]

\* transpose with the column loop one short: the last column is never copied.
transpose_short_loop(matrix) ==
    IF IsEmptyMatrix(matrix) THEN <<>>
    ELSE LET number_of_rows == Len(matrix)
             number_of_columns == Len(matrix[1])
         IN  [j \in 1..number_of_columns |->
                 [i \in 1..number_of_rows |->
                     IF j < number_of_columns THEN matrix[i][j] ELSE 0]]

transpose(matrix) ==
    IF IsEmptyMatrix(matrix) THEN <<>>
    ELSE LET number_of_rows == Len(matrix)
             number_of_columns == Len(matrix[1])
         IN  [j \in 1..number_of_columns |->
                 [i \in 1..number_of_rows |-> matrix[i][j]]]

\* matrix_multiply with the inner loop one short: the last product is dropped.
matrix_multiply_short_sum(matrix1, matrix2) ==
    IF matrix1 = <<>> \/ matrix2 = <<>> THEN <<>>
    ELSE LET matrix1_rows == Len(matrix1)
             matrix1_cols == Len(matrix1[1])
             matrix2_rows == Len(matrix2)
             matrix2_cols == Len(matrix2[1])
         IN  IF matrix1_cols # matrix2_rows THEN <<>>
             ELSE [i \in 1..matrix1_rows |->
                     [j \in 1..matrix2_cols |->
                         Sum([k \in 1..(matrix1_cols - 1) |->
                                 matrix1[i][k] * matrix2[k][j]])]]

\* matrix_multiply that hands back the zero-filled result on a dimension
\* mismatch instead of [].
matrix_multiply_zero_on_mismatch(matrix1, matrix2) ==
    IF matrix1 = <<>> \/ matrix2 = <<>> THEN <<>>
    ELSE LET matrix1_rows == Len(matrix1)
             matrix1_cols == Len(matrix1[1])
             matrix2_rows == Len(matrix2)
             matrix2_cols == Len(matrix2[1])
         IN  IF matrix1_cols # matrix2_rows
             THEN [i \in 1..matrix1_rows |-> [j \in 1..matrix2_cols |-> 0]]
             ELSE [i \in 1..matrix1_rows |->
                     [j \in 1..matrix2_cols |->
                         Sum([k \in 1..matrix1_cols |->
                                 matrix1[i][k] * matrix2[k][j]])]]

matrix_multiply(matrix1, matrix2) ==
    IF matrix1 = <<>> \/ matrix2 = <<>> THEN <<>>
    ELSE LET matrix1_rows == Len(matrix1)
             matrix1_cols == Len(matrix1[1])
             matrix2_rows == Len(matrix2)
             matrix2_cols == Len(matrix2[1])
         IN  IF matrix1_cols # matrix2_rows THEN <<>>
             ELSE [i \in 1..matrix1_rows |->
                     [j \in 1..matrix2_cols |->
                         Sum([k \in 1..matrix1_cols |->
                                 matrix1[i][k] * matrix2[k][j]])]]

\* np.array(matrix).shape for a rectangular list of lists: (0,) for [],
\* (R, C) otherwise, C = 0 included.
NpShape(matrix) ==
    IF matrix = <<>> THEN <<0>> ELSE <<Len(matrix), Len(matrix[1])>>

\* np.linalg.eigvals(matrix_np).tolist(): one value per row of the square
\* matrix.  The values themselves are not integers and are kept symbolic.
Eigvals(matrix) == [eigenvalues_of |-> matrix, count |-> Len(matrix)]

compute_eigenvalues(matrix) ==
    LET shape == NpShape(matrix)
    IN  IF Len(shape) < 2 THEN [raised |-> IndexError, ret |-> <<>>]
        ELSE IF shape[1] # shape[2] THEN [raised |-> ShapeError, ret |-> <<>>]
        ELSE [raised |-> NoError, ret |-> <<Eigvals(matrix)>>]

\* --------------------------------------------------------- matrix_norms
\* one_norm with max(..., default=0): an empty matrix yields 0.0.
one_norm_default(matrix) ==
    LET matrix_column_sums == column_sums(matrix)
    IN  IF matrix_column_sums = <<>>
        THEN [raised |-> NoError, ret |-> <<Float(0)>>]
        ELSE [raised |-> NoError, ret |-> <<Float(Max(matrix_column_sums))>>]

one_norm(matrix) ==
    LET matrix_column_sums == column_sums(matrix)
    IN  IF matrix_column_sums = <<>>
        THEN [raised |-> MaxEmptyError, ret |-> <<>>]
        ELSE [raised |-> NoError, ret |-> <<Float(Max(matrix_column_sums))>>]

infinity_norm(matrix) ==
    LET matrix_row_sums == row_sums(matrix)
    IN  IF matrix_row_sums = <<>>
        THEN [raised |-> MaxEmptyError, ret |-> <<>>]
        ELSE [raised |-> NoError, ret |-> <<Float(Max(matrix_row_sums))>>]

\* two_norm with the factors of the product swapped (A A^T instead of A^T A).
two_norm_swapped(matrix) ==
    LET transposed_matrix == transpose(matrix)
        matrix_product == matrix_multiply(matrix, transposed_matrix)
        eigenvalues == compute_eigenvalues(matrix_product)
    IN  [transposed_matrix |-> transposed_matrix,
         matrix_product |-> matrix_product,
         raised |-> IF eigenvalues.raised # NoError THEN eigenvalues.raised
                    ELSE IF eigenvalues.ret[1].count = 0 THEN MaxEmptyError
                    ELSE NoError,
         ret |-> IF eigenvalues.raised # NoError \/ eigenvalues.ret[1].count = 0
                 THEN <<>>
                 ELSE <<[sqrt_max_abs |-> eigenvalues.ret[1]]>>]

\* The locals of two_norm are returned with its outcome, so that the Gram
\* matrix can be observed.
two_norm(matrix) ==
    LET transposed_matrix == transpose(matrix)
        matrix_product == matrix_multiply(transposed_matrix, matrix)
        eigenvalues == compute_eigenvalues(matrix_product)
    IN  [transposed_matrix |-> transposed_matrix,
         matrix_product |-> matrix_product,
         raised |-> IF eigenvalues.raised # NoError THEN eigenvalues.raised
                    ELSE IF eigenvalues.ret[1].count = 0 THEN MaxEmptyError
                    ELSE NoError,
         ret |-> IF eigenvalues.raised # NoError \/ eigenvalues.ret[1].count = 0
                 THEN <<>>
                 ELSE <<[sqrt_max_abs |-> eigenvalues.ret[1]]>>]

\* --------------------------------------------------------- vector_norms
RECURSIVE PreviousDifferenceLoop(_, _, _)
\* for i in range(1, len(vector)): norm_value += abs(vector[i] - vector[i-1])
PreviousDifferenceLoop(vector, i, norm_value) ==
    IF i > Len(vector) THEN norm_value
    ELSE PreviousDifferenceLoop(vector, i + 1,
                                norm_value + Abs(vector[i] - vector[i - 1]))

\* previous_difference_norm that starts from vector[0] without abs().
previous_difference_norm_no_abs(vector) ==
    IF vector = <<>> THEN Float(0)
    ELSE Float(PreviousDifferenceLoop(vector, 2, vector[1]))

previous_difference_norm(vector) ==
    IF vector = <<>> THEN Float(0)
    ELSE Float(PreviousDifferenceLoop(vector, 2, Abs(vector[1])))

\* ---------------------------------------------------------------- inputs
\* Rectangular matrices of at most n elements: [], r >= 1 rows of length 0,
\* and r x c with r, c >= 1.
Shapes(n) ==
    {<<0, 0>>} \cup {s \in (1..n) \X (0..n) : s[1] * s[2] <= n}

MatricesOver(n, vals) ==
    UNION {[1..s[1] -> [1..s[2] -> vals]] : s \in Shapes(n)}

Matrices == MatricesOver(MaxCells, Vals)

MulMatrices == MatricesOver(MaxMulCells, MulVals)

Vectors == UNION {[1..n -> Vals] : n \in 0..MaxLen}

UnaryFunctions ==
    {"column_sums", "row_sums", "transpose", "compute_eigenvalues",
     "one_norm", "infinity_norm", "two_norm"}

\* ----------------------------------------------------------------- state
VARIABLES fn, matrix, matrix2, vector, calls, ret, raised, gram

vars == <<fn, matrix, matrix2, vector, calls, ret, raised, gram>>

Init ==
    /\ calls = 0
    /\ ret = <<>>
    /\ raised = NoError
    /\ gram = <<>>
    /\ \/ fn \in UnaryFunctions /\ matrix \in Matrices
          /\ matrix2 = <<>> /\ vector = <<>>
       \/ fn = "matrix_multiply" /\ matrix \in MulMatrices
          /\ matrix2 \in MulMatrices /\ vector = <<>>
       \/ fn = "previous_difference_norm" /\ vector \in Vectors
          /\ matrix = <<>> /\ matrix2 = <<>>

Returns(value) ==
    /\ ret' = <<value>>
    /\ raised' = NoError
    /\ calls' = calls + 1
    /\ UNCHANGED <<fn, matrix, matrix2, vector, gram>>

Outcome(r) ==
    /\ ret' = r.ret
    /\ raised' = r.raised
    /\ calls' = calls + 1
    /\ UNCHANGED <<fn, matrix, matrix2, vector, gram>>

ColumnSums == fn = "column_sums" /\ calls = 0 /\ Returns(column_sums(matrix))

RowSums == fn = "row_sums" /\ calls = 0 /\ Returns(row_sums(matrix))

\* The first call transposes the input, each later call the previous result.
Transpose ==
    /\ fn = "transpose"
    /\ calls < MaxCalls
    /\ Returns(transpose(IF calls = 0 THEN matrix ELSE ret[1]))

MatrixMultiply ==
    fn = "matrix_multiply" /\ calls = 0 /\ Returns(matrix_multiply(matrix, matrix2))

ComputeEigenvalues ==
    fn = "compute_eigenvalues" /\ calls = 0 /\ Outcome(compute_eigenvalues(matrix))

OneNorm == fn = "one_norm" /\ calls = 0 /\ Outcome(one_norm(matrix))

InfinityNorm == fn = "infinity_norm" /\ calls = 0 /\ Outcome(infinity_norm(matrix))

TwoNorm ==
    /\ fn = "two_norm"
    /\ calls = 0
    /\ LET r == two_norm(matrix)
       IN  /\ ret' = r.ret
           /\ raised' = r.raised
           /\ gram' = <<r.transposed_matrix, r.matrix_product>>
    /\ calls' = calls + 1
    /\ UNCHANGED <<fn, matrix, matrix2, vector>>

PreviousDifferenceNorm ==
    /\ fn = "previous_difference_norm"
    /\ calls = 0
    /\ Returns(previous_difference_norm(vector))

Next ==
    \/ ColumnSums
    \/ RowSums
    \/ Transpose
    \/ MatrixMultiply
    \/ ComputeEigenvalues
    \/ OneNorm
    \/ InfinityNorm
    \/ TwoNorm
    \/ PreviousDifferenceNorm

Spec == Init /\ [][Next]_vars

\* ---------------------------------------------------------------- claims
Rows(m) == Len(m)

\* Column count of a rectangular matrix; the matrix without rows is 0 x 0.
Cols(m) == IF m = <<>> THEN 0 ELSE Len(m[1])

NonEmpty(m) == Rows(m) >= 1 /\ Cols(m) >= 1

IsShape(m, r, c) == Len(m) = r /\ \A i \in 1..r : Len(m[i]) = c

\* C1 as stated: for every rectangular matrix A, with zero rows or with rows
\* of zero length included, transpose(transpose(A)) equals A.
C1_RoundTripAnyMatrix ==
    (fn = "transpose" /\ calls = 2) => ret = <<matrix>>

\* C1 amended: transpose(transpose(A)) equals A when A has zero rows or has
\* at least one row and at least one column; when A has R >= 1 rows of zero
\* length, transpose(transpose(A)) is [] and differs from A.
C1_RoundTrip ==
    (fn = "transpose" /\ calls = 2) =>
        IF Rows(matrix) >= 1 /\ Cols(matrix) = 0
        THEN ret = <<<<>>>> /\ ret # <<matrix>>
        ELSE ret = <<matrix>>

C1_Witness ==
    /\ fn = "transpose"
    /\ calls = 2
    /\ IsShape(matrix, 2, 3)
    /\ matrix[1] # matrix[2]
    /\ ret = <<matrix>>

\* C2: for an R x C input with R, C >= 1, transpose returns exactly C rows of
\* exactly R elements, with output[j][i] = input[i][j] for all valid i, j.
C2_TransposeShapeAndEntries ==
    (fn = "transpose" /\ calls = 1 /\ NonEmpty(matrix)) =>
        /\ Len(ret) = 1
        /\ IsShape(ret[1], Cols(matrix), Rows(matrix))
        /\ \A i \in 1..Rows(matrix) : \A j \in 1..Cols(matrix) :
               ret[1][j][i] = matrix[i][j]

C2_Witness ==
    /\ fn = "transpose"
    /\ calls = 1
    /\ matrix = <<<<-1, 0, 2>>, <<2, -1, 0>>>>
    /\ ret = <<<<<<-1, 2>>, <<0, -1>>, <<2, 0>>>>>>

RECURSIVE DotProduct(_, _, _, _, _)
\* a[i][1]*b[1][j] + ... + a[i][n]*b[n][j]
DotProduct(a, b, i, j, n) ==
    IF n = 0 THEN 0 ELSE DotProduct(a, b, i, j, n - 1) + a[i][n] * b[n][j]

\* C3: for non-empty a (R1 x C1) and b (R2 x C2) with C1 = R2, matrix_multiply
\* returns exactly R1 rows of C2 elements with result[i][j] = sum over k of
\* a[i][k] * b[k][j].
C3_ProductShapeAndEntries ==
    (/\ fn = "matrix_multiply"
     /\ calls = 1
     /\ NonEmpty(matrix)
     /\ NonEmpty(matrix2)
     /\ Cols(matrix) = Rows(matrix2)) =>
        /\ Len(ret) = 1
        /\ IsShape(ret[1], Rows(matrix), Cols(matrix2))
        /\ \A i \in 1..Rows(matrix) : \A j \in 1..Cols(matrix2) :
               ret[1][i][j] = DotProduct(matrix, matrix2, i, j, Cols(matrix))

C3_Witness ==
    /\ fn = "matrix_multiply"
    /\ calls = 1
    /\ matrix = <<<<-1, 2>>, <<2, 2>>>>
    /\ matrix2 = <<<<2, -1>>, <<-1, -1>>>>
    /\ ret = <<<<<<-4, -1>>, <<2, -4>>>>>>

\* C4 as stated: if either argument of matrix_multiply is an empty matrix
\* (zero rows, or a first row of zero length), matrix_multiply returns [].
C4_EmptyArgumentGivesEmptyList ==
    (/\ fn = "matrix_multiply"
     /\ calls = 1
     /\ (IsEmptyMatrix(matrix) \/ IsEmptyMatrix(matrix2))) =>
        (ret = <<<<>>>> /\ raised = NoError)

\* C5: for non-empty a (R1 x C1) and b (R2 x C2) with C1 # R2, matrix_multiply
\* returns [] and raises no error.
C5_MismatchGivesEmptyList ==
    (/\ fn = "matrix_multiply"
     /\ calls = 1
     /\ NonEmpty(matrix)
     /\ NonEmpty(matrix2)
     /\ Cols(matrix) # Rows(matrix2)) =>
        (ret = <<<<>>>> /\ raised = NoError)

C5_Witness ==
    /\ fn = "matrix_multiply"
    /\ calls = 1
    /\ IsShape(matrix, 1, 2)
    /\ IsShape(matrix2, 1, 2)
    /\ ret = <<<<>>>>
    /\ raised = NoError

\* C6 as stated: compute_eigenvalues fails with the shape error and returns
\* no eigenvalue set when the row count differs from the column count, and
\* its shape check raises nothing when they are equal (0 x 0 included).
C6_ShapeCheck ==
    (fn = "compute_eigenvalues" /\ calls = 1) =>
        IF Rows(matrix) # Cols(matrix)
        THEN raised = ShapeError /\ ret = <<>>
        ELSE raised = NoError

\* C7 as stated: in two_norm, an empty Gram matrix passes the squareness
\* check of compute_eigenvalues as 0 x 0: that check raises no error.
C7_EmptyGramPassesShapeCheck ==
    (fn = "two_norm" /\ calls = 1 /\ gram[2] = <<>>) =>
        raised \notin {ShapeError, IndexError}

RECURSIVE SumOfDifferences(_, _)
\* |v[2]-v[1]| + ... + |v[n]-v[n-1]|
SumOfDifferences(v, n) ==
    IF n <= 1 THEN 0 ELSE SumOfDifferences(v, n - 1) + Abs(v[n] - v[n - 1])

\* C8: previous_difference_norm(v) is the float |v[0]| + sum over i >= 1 of
\* |v[i] - v[i-1]|, and 0.0 for the empty sequence.
C8_PreviousDifferenceNorm ==
    (fn = "previous_difference_norm" /\ calls = 1) =>
        /\ raised = NoError
        /\ ret = <<Float(IF vector = <<>> THEN 0
                         ELSE Abs(vector[1]) + SumOfDifferences(vector, Len(vector)))>>

C8_Witness ==
    /\ fn = "previous_difference_norm"
    /\ calls = 1
    /\ vector = <<-1, 2, 0, -1>>
    /\ ret = <<Float(7)>>

\* C9: for a non-empty R x C matrix, the Gram matrix built in two_norm is
\* non-empty with exactly C rows and C columns, and the squareness check of
\* compute_eigenvalues does not fail.
C9_GramIsSquare ==
    (fn = "two_norm" /\ calls = 1 /\ NonEmpty(matrix)) =>
        /\ gram[2] # <<>>
        /\ IsShape(gram[2], Cols(matrix), Cols(matrix))
        /\ raised = NoError

C9_Witness ==
    /\ fn = "two_norm"
    /\ calls = 1
    /\ IsShape(matrix, 2, 3)
    /\ IsShape(gram[1], 3, 2)
    /\ IsShape(gram[2], 3, 3)
    /\ raised = NoError

====
